---- MODULE Spec2Model ----
(***************************************************************************)
(* Model of source/features/github-actions-indicators.tsx: the workflow    *)
(* list fetcher, the workflow definition fetcher, the aggregation inside   *)
(* getWorkflowsDetails, the freshness cache wrapped around it              *)
(* (cache.function with maxAge / staleWhileRevalidate / cacheKey), and the *)
(* per-row indicator logic of addIndicators and init.                      *)
(*                                                                         *)
(* Strings are sequences of tokens.  The tokens ":", " ", "-", "'", "\"",  *)
(* "\n" and "/" stand for those single characters; every other token       *)
(* stands for a run of characters that contains none of them, but for a    *)
(* cron expression inside a definition text, which is one token with its   *)
(* blanks ("30 5 * * 1").                                                  *)
(***************************************************************************)
EXTENDS Integers, Sequences, FiniteSets, TLC

\* The value of a missing property / an absent optional (JavaScript undefined).
\* It is a string (a token sequence) that no string of the model is equal to.
Undefined == << "undefined" >>

\* The empty string.
EmptyString == << >>

----------------------------------------------------------------------------
(* String helpers *)

\* Variant: s.split('/').shift(), the tokens before the first "/".
RECURSIVE FirstSegment(_)
FirstSegment(s) ==
    IF s = << >> THEN << >>
    ELSE IF s[1] = "/" THEN << >>
    ELSE << s[1] >> \o FirstSegment(Tail(s))

\* s.split('/').pop(): the tokens after the last "/" (the whole string when it
\* has no "/", the empty string when it is empty or ends in "/").
RECURSIVE LastSegment(_)
LastSegment(s) ==
    IF s = << >> THEN << >>
    ELSE IF s[Len(s)] = "/" THEN << >>
    ELSE Append(LastSegment(SubSeq(s, 1, Len(s) - 1)), s[Len(s)])

\* The tokens whose last characters are workflow_dispatch.
DispatchWords == {"workflow_dispatch", "my_workflow_dispatch"}

\* Variant: only a key that starts its line, after blanks at most, counts.
IncludesDispatchKey(text) ==
    \E i \in 1..(Len(text) - 1) :
        /\ text[i] = "workflow_dispatch" /\ text[i + 1] = ":"
        /\ \E j \in 0..(i - 1) :
              /\ j = 0 \/ text[j] = "\n"
              /\ \A l \in (j + 1)..(i - 1) : text[l] = " "

\* text.includes('workflow_dispatch:')
IncludesDispatch(text) ==
    \E i \in 1..(Len(text) - 1) :
        text[i] \in DispatchWords /\ text[i + 1] = ":"

\* Variant: [:\s-] without the line break.
Sep1OneLine == {":", " ", "-"}

\* The character classes of /schedule[:\s-]+cron[:\s'"]+([^'"\n]+)/m
Sep1 == {":", " ", "\n", "-"}
Sep2 == {":", " ", "\n", "'", "\""}
NotCaptured == {"'", "\"", "\n"}

\* The first position >= i of text holding a token outside class (Len+1 if none).
RECURSIVE RunEnd(_, _, _)
RunEnd(text, i, class) ==
    IF i > Len(text) \/ text[i] \notin class THEN i
    ELSE RunEnd(text, i + 1, class)

\* The first position >= i of text holding a token of NotCaptured (Len+1 if none).
RECURSIVE CaptureEnd(_, _)
CaptureEnd(text, i) ==
    IF i > Len(text) \/ text[i] \in NotCaptured THEN i
    ELSE CaptureEnd(text, i + 1)

\* The capture of a match of the regular expression that starts at position i,
\* or Undefined.  [:\s-]+ must end right before "cron"; [:\s'"]+ is greedy and
\* gives back tokens until the capture group can take at least one token.
MatchAt(text, i) ==
    IF i > Len(text) \/ text[i] # "schedule" THEN Undefined
    ELSE LET k == RunEnd(text, i + 1, Sep1) IN
         IF k = i + 1 \/ k > Len(text) \/ text[k] # "cron" THEN Undefined
         ELSE LET p == RunEnd(text, k + 1, Sep2)
                  \* capture starts: after >= 1 separator, on a capturable token
                  starts == {q \in (k + 2)..p :
                                q <= Len(text) /\ text[q] \notin NotCaptured}
              IN IF starts = {} THEN Undefined
                 ELSE LET q == CHOOSE x \in starts : \A y \in starts : y <= x
                      IN SubSeq(text, q, CaptureEnd(text, q) - 1)

\* cron?.[1] of the first (leftmost) match in the text.
RECURSIVE ExecCronFrom(_, _)
ExecCronFrom(text, i) ==
    IF i > Len(text) THEN Undefined
    ELSE IF MatchAt(text, i) # Undefined THEN MatchAt(text, i)
    ELSE ExecCronFrom(text, i + 1)

ExecCron(text) == ExecCronFrom(text, 1)

----------------------------------------------------------------------------
(* Records (JavaScript objects used as maps), as functions on their keys *)

EmptyMap == [k \in {} |-> Undefined]

\* Variant: map[key] ??= value, a key that is there keeps its value.
PutIfAbsent(map, key, value) ==
    [k \in (DOMAIN map) \cup {key} |-> IF k \in DOMAIN map THEN map[k] ELSE value]

\* map[key] = value
Put(map, key, value) ==
    [k \in (DOMAIN map) \cup {key} |-> IF k = key THEN value ELSE map[k]]

\* map[key]: Undefined for a key the map does not have.
Get(map, key) == IF key \in DOMAIN map THEN map[key] ELSE Undefined

----------------------------------------------------------------------------
(* getWorkflows: the rows of the REST response, mapped to Workflow records *)

\* Variant: every listed workflow counts as enabled.
ToWorkflowEnabled(workflow) ==
    [name |-> LastSegment(workflow.path), isEnabled |-> TRUE]

ToWorkflow(workflow) ==
    [name |-> LastSegment(workflow.path), isEnabled |-> (workflow.state = "active")]

getWorkflows(response) == [i \in 1..Len(response) |-> ToWorkflow(response[i])]

(* getFilesInWorkflowPath: workflowFiles is [isNull, entries]; an entry is     *)
(* [name, text], text being Undefined for an entry that is not a Blob.       *)

RECURSIVE FilesFrom(_, _, _)
FilesFrom(entries, i, result) ==
    IF i > Len(entries) THEN result
    ELSE FilesFrom(entries, i + 1, Put(result, entries[i].name, entries[i].text))

getFilesInWorkflowPath(workflowFiles) ==
    LET workflows == IF workflowFiles.isNull THEN << >> ELSE workflowFiles.entries
    IN FilesFrom(workflows, 1, EmptyMap)

(* The getter of getWorkflowsDetails after Promise.all: the join *)

Details(workflow, workflowYaml) ==
    [name |-> workflow.name,
     isEnabled |-> workflow.isEnabled,
     schedule |-> ExecCron(workflowYaml),
     manuallyDispatchable |-> IncludesDispatch(workflowYaml)]

RECURSIVE DetailsFrom(_, _, _, _)
DetailsFrom(workflows, workflowFiles, i, details) ==
    IF i > Len(workflows) THEN details
    ELSE LET workflow == workflows[i]
             workflowYaml == Get(workflowFiles, workflow.name)
         IN IF workflowYaml = Undefined
            THEN DetailsFrom(workflows, workflowFiles, i + 1, details)
            ELSE DetailsFrom(workflows, workflowFiles, i + 1,
                             Put(details, workflow.name, Details(workflow, workflowYaml)))

\* Variant: a workflow without a definition is kept, read as an empty file.
RECURSIVE DetailsKeepingAll(_, _, _, _)
DetailsKeepingAll(workflows, workflowFiles, i, details) ==
    IF i > Len(workflows) THEN details
    ELSE LET workflow == workflows[i]
             workflowYaml == Get(workflowFiles, workflow.name)
         IN DetailsKeepingAll(workflows, workflowFiles, i + 1,
                Put(details, workflow.name,
                    Details(workflow, IF workflowYaml = Undefined THEN EmptyString
                                      ELSE workflowYaml)))

AggregateKeepingAll(workflows, workflowFiles) ==
    DetailsKeepingAll(workflows, workflowFiles, 1, EmptyMap)

Aggregate(workflows, workflowFiles) == DetailsFrom(workflows, workflowFiles, 1, EmptyMap)

----------------------------------------------------------------------------
(* The remote side: what the two API calls answer for a repository *)

\* The repositories whose cache entries live in the shared storage.
Repos == {"r1", "r2"}

\* Upstream data changes over time; a version stands for one state of it.  A
\* fetch reads one of the versions below.
ListVersions == {1, 2}
FilesVersions == {1}

WorkflowsDir == << ".github", "/", "workflows", "/" >>

MainFile(repo) == IF repo = "r1" THEN << "ci.yml" >> ELSE << "deploy.yml" >>

ScheduledText ==
    << "on", ":", "\n", " ", "workflow_dispatch", ":", "\n", " ", "schedule", ":",
       "\n", " ", "-", " ", "cron", ":", " ", "'", "30 5 * * 1", "'", "\n" >>

PlainText == << "on", ":", " ", "push", "\n" >>

BadCronText ==
    << "on", ":", "\n", " ", "schedule", ":", "\n", " ", "-", " ", "cron", ":", " ",
       "\"", "bad", "\"", "\n" >>

\* GET actions/workflows, at a version: one real workflow, one with an empty path, one
\* whose file is gone but which is still listed as active.
RemoteWorkflows(repo, version) ==
    << [path |-> WorkflowsDir \o MainFile(repo),
        state |-> IF version % 2 = 1 THEN "active" ELSE "disabled_manually"],
       [path |-> EmptyString, state |-> "active"],
       [path |-> WorkflowsDir \o << "gone.yml" >>, state |-> "active"] >>

\* HEAD:.github/workflows: the real workflow, a file that is not listed, and a
\* subdirectory (no text: it is not a Blob).
RemoteWorkflowFiles(repo, version) ==
    [isNull |-> FALSE,
     entries |-> << [name |-> MainFile(repo),
                     text |-> IF version % 2 = 1 THEN ScheduledText ELSE PlainText],
                    [name |-> << "unlisted.yml" >>, text |-> PlainText],
                    [name |-> << "sub" >>, text |-> Undefined] >>]

----------------------------------------------------------------------------
(* The freshness cache around the getter (cache.function options) *)

\* Time is counted in days.

\* Variants: an entry served as fresh for two days, or for none.
MaxAgeTwoDays == 1 + 1
MaxAgeZero == 1 - 1

\* maxAge: {days: 1}
MaxAge == 1

\* Variants: a stale window of eleven days, or of five.
StaleElevenDays == 10 + 1
StaleFiveDays == 10 - 5

\* staleWhileRevalidate: {days: 10}
StaleWhileRevalidate == 10

\* Variant: one storage key for every repository.
CacheKeyShared(repo) == "r1"

\* cacheKey: cacheByRepo -- the storage key of a lookup made for a repository.
CacheKey(repo) == repo

Keys == {CacheKey(repo) : repo \in Repos}

\* Ages are followed up to the first day past the whole horizon: from there on
\* an entry is not served, however old it is.
AgeCap == MaxAge + StaleWhileRevalidate + 1

VARIABLES
    cache,       \* cache[key]: [present, value, age], age = now - computedAt
    inProgress,  \* inProgress[key]: the in-flight marker
    comps,       \* comps[key]: the computations in flight, [repo, list, files] each
    waiters,     \* waiters[key]: the callers awaiting the computation
    ret,         \* what the step just taken answered to its caller(s)
    failed,      \* failed[key]: a revalidation of the entry failed since it was stored
    initPc,      \* where init is: "start", "waiting", "observing", "failed"
    rows,        \* rows[row]: what the row holds, see BlankRow
    input,       \* the API responses given to the getter run on its own
    output       \* what the getter run on its own made of them

cacheVars == << cache, inProgress, comps, waiters, failed >>
pageVars == << initPc, rows >>
getterVars == << input, output >>
vars == << cache, inProgress, comps, waiters, ret, failed, initPc, rows, input, output >>

NoEntry == [present |-> FALSE, value |-> EmptyMap, age |-> 0]

\* A fetch that has not completed holds Pending; a completed one holds the
\* version of the data it read.
Pending == 0

NewComputation(repo) == [repo |-> repo, list |-> Pending, files |-> Pending]

\* ret: nothing, a value read from the cache ("hit"), a caller left awaiting the
\* computation ("wait"), the computation's outcome given to those awaiting it
\* ("resolved", "rejected"), or the outcome of a computation nobody awaits
\* ("revalidated", and "logged" for a failure that goes no further).
NoRet == [kind |-> "none", key |-> "", value |-> EmptyMap]
Hit(key, value) == [kind |-> "hit", key |-> key, value |-> value]
Wait(key) == [kind |-> "wait", key |-> key, value |-> EmptyMap]
Resolved(key, value) == [kind |-> "resolved", key |-> key, value |-> value]
Rejected(key) == [kind |-> "rejected", key |-> key, value |-> EmptyMap]
Revalidated(key, value) == [kind |-> "revalidated", key |-> key, value |-> value]
Logged(key) == [kind |-> "logged", key |-> key, value |-> EmptyMap]

Age(key) == cache[key].age

\* No entry, or one past maxAge + staleWhileRevalidate: not served.
IsMissing(key) ==
    ~cache[key].present \/ Age(key) > MaxAge + StaleWhileRevalidate

\* Past maxAge and within the stale window: served, and revalidated.
IsStale(key) == ~IsMissing(key) /\ Age(key) > MaxAge

IsFresh(key) == ~IsMissing(key) /\ ~IsStale(key)

\* Variant: the marker is not consulted.
MayStartAlways(key) == TRUE

\* Check-and-set of the in-flight marker: a computation starts only when none
\* is in flight for the key.
MayStart(key) == ~inProgress[key]

StartComputation(key, repo) ==
    /\ comps' = [comps EXCEPT ![key] = Append(@, NewComputation(repo))]
    /\ inProgress' = [inProgress EXCEPT ![key] = TRUE]

\* What a call of getWorkflowsDetails() answers at once.
LookupAnswer(key) ==
    IF IsMissing(key) THEN Wait(key) ELSE Hit(key, cache[key].value)

\* The cache's side of one call of getWorkflowsDetails() by caller.
LookupCache(key, repo, caller) ==
    /\ IF IsMissing(key)
         THEN waiters' = [waiters EXCEPT ![key] = @ \cup {caller}]
         ELSE UNCHANGED waiters
    /\ IF ~IsFresh(key) /\ MayStart(key)
         THEN StartComputation(key, repo)
         ELSE UNCHANGED << comps, inProgress >>
    /\ ret' = LookupAnswer(key)
    /\ UNCHANGED << cache, failed >>

----------------------------------------------------------------------------
(* The page: init, the row observer and addIndicators *)

\* The repository of the page the feature runs on.
PageRepo == "r1"

\* The a.ActionList-content rows of the page.
Rows == {"row1", "row2"}

RowHref(row) ==
    << "", "/", "owner", "/", "repo", "/", "actions", "/", "workflows", "/" >>
        \o (IF row = "row1" THEN MainFile(PageRepo) ELSE << "gone.yml" >>)

\* How often the observer may hand one row to addIndicators.
MaxCalls == 2

\* parseCron.nextDate(schedule): a date, or nothing for an expression it
\* cannot parse.
ValidCrons == { << "30 5 * * 1" >>, << "0 0 * * *" >> }
NoDate == "no date"
NextDate(schedule) ==
    IF schedule \in ValidCrons THEN "date" ELSE NoDate

\* stops: .octicon-stop icons in the row; trailers: trailing containers;
\* plays: play icons; nexts: relative-time labels; tooltip: the parts of
\* aria-label; timers: pending setTimeout callbacks; calls: addIndicators calls.
BlankRow(nativeStop) ==
    [stops |-> IF nativeStop THEN 1 ELSE 0, trailers |-> 0, plays |-> 0,
     nexts |-> 0, tooltip |-> << >>, timers |-> 0, calls |-> 0]

\* addTooltip(element, tooltip)
addTooltip(row, tooltip) == [row EXCEPT !.tooltip = Append(@, tooltip)]

\* The three decisions of addIndicators for one workflow record
\* (ShowsNextRunUnchecked: a variant without the check of line 136).
ShowsDisabled(workflow) == ~workflow.isEnabled
ShowsDispatchable(workflow) == workflow.manuallyDispatchable
ShowsNextRunUnchecked(workflow) == workflow.schedule # Undefined
ShowsNextRun(workflow) ==
    /\ workflow.schedule # Undefined
    /\ NextDate(workflow.schedule) # NoDate

\* Variant: the indicators chained with else, the first that applies winning.
RenderExclusive(row, href, workflows) ==
    LET workflowName == LastSegment(href) IN
    IF workflowName \notin DOMAIN workflows THEN row
    ELSE LET workflow == workflows[workflowName]
             withTrailer == [row EXCEPT !.trailers = @ + 1]
         IN IF ShowsDisabled(workflow)
            THEN addTooltip([withTrailer EXCEPT !.stops = @ + 1], "not enabled")
            ELSE IF ShowsDispatchable(workflow)
            THEN addTooltip([withTrailer EXCEPT !.plays = @ + 1], "manual")
            ELSE IF ShowsNextRun(workflow)
            THEN [withTrailer EXCEPT !.nexts = @ + 1, !.timers = @ + 1]
            ELSE withTrailer

\* addIndicators from line 112 on: the row after rendering with `workflows`.
Render(row, href, workflows) ==
    LET workflowName == LastSegment(href) IN
    IF workflowName \notin DOMAIN workflows THEN row
    ELSE LET workflow == workflows[workflowName]
             withTrailer == [row EXCEPT !.trailers = @ + 1]
             withStop == IF ShowsDisabled(workflow)
                         THEN addTooltip([withTrailer EXCEPT !.stops = @ + 1],
                                         "not enabled")
                         ELSE withTrailer
             withPlay == IF ShowsDispatchable(workflow)
                         THEN addTooltip([withStop EXCEPT !.plays = @ + 1], "manual")
                         ELSE withStop
         IN IF ShowsNextRun(workflow)
            THEN [withPlay EXCEPT !.nexts = @ + 1, !.timers = @ + 1]
            ELSE withPlay

\* Variant: init catches the rejection and registers the observer anyway.
DeliverCatching(callers, ok, value) ==
    /\ initPc' = IF "init" \in callers THEN "observing" ELSE initPc
    /\ rows' = [row \in Rows |->
                  IF row \in callers /\ ok
                  THEN Render(rows[row], RowHref(row), value)
                  ELSE rows[row]]

\* What the callers awaiting a computation do with its outcome: init goes on
\* to register the observer or rejects, a waiting addIndicators renders or
\* rejects.
Deliver(callers, ok, value) ==
    /\ initPc' = IF "init" \in callers
                  THEN (IF ok THEN "observing" ELSE "failed")
                  ELSE initPc
    /\ rows' = [row \in Rows |->
                  IF row \in callers /\ ok
                  THEN Render(rows[row], RowHref(row), value)
                  ELSE rows[row]]

----------------------------------------------------------------------------
(* Actions *)

IdleGetter == [workflows |-> << >>, files |-> [isNull |-> TRUE, entries |-> << >>]]
NoOutput == [done |-> FALSE, workflows |-> << >>, files |-> EmptyMap, details |-> EmptyMap]

Init ==
    /\ cache = [key \in Keys |-> NoEntry]
    /\ inProgress = [key \in Keys |-> FALSE]
    /\ comps = [key \in Keys |-> << >>]
    /\ waiters = [key \in Keys |-> {}]
    /\ failed = [key \in Keys |-> FALSE]
    /\ ret = NoRet
    /\ initPc = "start"
    /\ rows \in [Rows -> {BlankRow(FALSE), BlankRow(TRUE)}]
    /\ input = IdleGetter
    /\ output = NoOutput

\* A day passes.
Tick ==
    /\ \E key \in Keys : cache[key].present /\ cache[key].age < AgeCap
    /\ cache' = [key \in Keys |->
                   IF cache[key].present /\ cache[key].age < AgeCap
                   THEN [cache[key] EXCEPT !.age = @ + 1]
                   ELSE cache[key]]
    /\ ret' = NoRet
    /\ UNCHANGED << inProgress, comps, waiters, failed, pageVars, getterVars >>

\* getWorkflowsDetails() called on another page of the repository.
TabLookup(repo) ==
    /\ "tab" \notin waiters[CacheKey(repo)]
    /\ LookupCache(CacheKey(repo), repo, "tab")
    /\ UNCHANGED << pageVars, getterVars >>

\* init: the first lookup; the observer is registered once it has a value.
InitStart ==
    /\ initPc = "start"
    /\ LookupCache(CacheKey(PageRepo), PageRepo, "init")
    /\ initPc' = IF IsMissing(CacheKey(PageRepo)) THEN "waiting" ELSE "observing"
    /\ UNCHANGED << rows, getterVars >>

\* Variant: addIndicators without the early return of lines 106-108.
AddIndicatorsUnguarded(row) ==
    LET key == CacheKey(PageRepo)
        called == [rows[row] EXCEPT !.calls = @ + 1]
    IN
    /\ initPc = "observing"
    /\ rows[row].calls < MaxCalls
    /\ row \notin waiters[key]
    /\ LookupCache(key, PageRepo, row)
    /\ rows' = [rows EXCEPT ![row] =
                  IF IsMissing(key) THEN called
                  ELSE Render(called, RowHref(row), cache[key].value)]
    /\ UNCHANGED << initPc, getterVars >>

\* The observer hands a row to addIndicators.
AddIndicators(row) ==
    LET key == CacheKey(PageRepo)
        called == [rows[row] EXCEPT !.calls = @ + 1]
    IN
    /\ initPc = "observing"
    /\ rows[row].calls < MaxCalls
    /\ row \notin waiters[key]
    /\ IF rows[row].stops > 0
         THEN /\ rows' = [rows EXCEPT ![row] = called]
              /\ ret' = NoRet
              /\ UNCHANGED cacheVars
         ELSE /\ LookupCache(key, PageRepo, row)
              /\ rows' = [rows EXCEPT ![row] =
                            IF IsMissing(key) THEN called
                            ELSE Render(called, RowHref(row), cache[key].value)]
    /\ UNCHANGED << initPc, getterVars >>

\* The setTimeout callback of addIndicators adds the next-run tooltip.
TooltipTimer(row) ==
    /\ rows[row].timers > 0
    /\ rows' = [rows EXCEPT ![row] = addTooltip([@ EXCEPT !.timers = @ - 1], "next run")]
    /\ ret' = NoRet
    /\ UNCHANGED << cacheVars, initPc, getterVars >>

\* Variant: the join goes ahead with the first fetch to resolve.
ReadyWithEither(comp) == comp.list # Pending \/ comp.files # Pending

\* Promise.all resolves once both fetches have.
ReadyToAggregate(comp) == comp.list # Pending /\ comp.files # Pending

ListResult(comp) ==
    IF comp.list = Pending THEN << >>
    ELSE getWorkflows(RemoteWorkflows(comp.repo, comp.list))

FilesResult(comp) ==
    IF comp.files = Pending THEN EmptyMap
    ELSE getFilesInWorkflowPath(RemoteWorkflowFiles(comp.repo, comp.files))

\* The getter's result for a computation whose fetches have resolved.
GetterResult(comp) == Aggregate(ListResult(comp), FilesResult(comp))

RemoveAt(seq, i) == SubSeq(seq, 1, i - 1) \o SubSeq(seq, i + 1, Len(seq))

\* Variant: a failed computation leaves the marker set.
SettleKeepsMarker(key, i, ok, value) ==
    /\ comps' = [comps EXCEPT ![key] = RemoveAt(@, i)]
    /\ inProgress' = [inProgress EXCEPT ![key] = ~ok]
    /\ waiters' = [waiters EXCEPT ![key] = {}]
    /\ Deliver(waiters[key], ok, value)
    /\ ret' = IF waiters[key] = {}
              THEN (IF ok THEN Revalidated(key, value) ELSE Logged(key))
              ELSE (IF ok THEN Resolved(key, value) ELSE Rejected(key))

\* The computation ends: the marker is cleared and the callers are answered.
Settle(key, i, ok, value) ==
    /\ comps' = [comps EXCEPT ![key] = RemoveAt(@, i)]
    /\ inProgress' = [inProgress EXCEPT ![key] = FALSE]
    /\ waiters' = [waiters EXCEPT ![key] = {}]
    /\ Deliver(waiters[key], ok, value)
    /\ ret' = IF waiters[key] = {}
              THEN (IF ok THEN Revalidated(key, value) ELSE Logged(key))
              ELSE (IF ok THEN Resolved(key, value) ELSE Rejected(key))

\* The getter resolved: the entry is replaced and stamped with the clock.
Store(key, i, comp) ==
    /\ cache' = [cache EXCEPT ![key] =
                    [present |-> TRUE, value |-> GetterResult(comp), age |-> 0]]
    /\ failed' = [failed EXCEPT ![key] = FALSE]
    /\ Settle(key, i, TRUE, GetterResult(comp))

\* One fetch of a computation resolves.
Fetched(key, i, comp) ==
    /\ IF ReadyToAggregate(comp)
         THEN Store(key, i, comp)
         ELSE /\ comps' = [comps EXCEPT ![key][i] = comp]
              /\ ret' = NoRet
              /\ UNCHANGED << cache, inProgress, waiters, failed, pageVars >>
    /\ UNCHANGED getterVars

\* getWorkflows() resolves, having read version.
ListFetched(key, i, version) ==
    /\ comps[key][i].list = Pending
    /\ Fetched(key, i, [comps[key][i] EXCEPT !.list = version])

\* getFilesInWorkflowPath() resolves, having read version.
FilesFetched(key, i, version) ==
    /\ comps[key][i].files = Pending
    /\ Fetched(key, i, [comps[key][i] EXCEPT !.files = version])

\* The getter threw: the entry stays as it is.  Nobody awaiting it, the
\* rejection goes no further than the cache.
GetterThrew(key, i) ==
    /\ Settle(key, i, FALSE, EmptyMap)
    /\ failed' = [failed EXCEPT ![key] = @ \/ (waiters[key] = {} /\ ~IsMissing(key))]
    /\ UNCHANGED cache

\* One of the two fetches rejects, and Promise.all with it.
FetchFailed(key, i) ==
    /\ GetterThrew(key, i)
    /\ UNCHANGED getterVars

Next ==
    \/ Tick
    \/ TabLookup(PageRepo)
    \/ InitStart
    \/ \E row \in Rows : AddIndicators(row)
    \/ \E row \in Rows : TooltipTimer(row)
    \/ \E key \in Keys : \E i \in 1..Len(comps[key]) :
           \E version \in ListVersions : ListFetched(key, i, version)
    \/ \E key \in Keys : \E i \in 1..Len(comps[key]) :
           \E version \in FilesVersions : FilesFetched(key, i, version)
    \/ \E key \in Keys : \E i \in 1..Len(comps[key]) : FetchFailed(key, i)

Spec == Init /\ [][Next]_vars

----------------------------------------------------------------------------
(* The getter on its own: any two API responses, fetched and joined *)

MaxWorkflows == 2
MaxEntries == 2

SamplePaths ==
    { EmptyString, WorkflowsDir \o << "a.yml" >>, WorkflowsDir \o << "b.yml" >> }
SampleStates == { "active", "disabled_manually" }
SampleNames == { << "a.yml" >>, << "b.yml" >>, << "c.yml" >> }
SampleTexts == { ScheduledText, PlainText, BadCronText, Undefined }

SeqsUpTo(set, n) == UNION { [1..k -> set] : k \in 0..n }

\* The entries of one tree have different names.
DistinctNames(entries) ==
    \A i, j \in 1..Len(entries) : i # j => entries[i].name # entries[j].name

SampleResponses == SeqsUpTo([path : SamplePaths, state : SampleStates], MaxWorkflows)

SampleWorkflowFiles ==
    { [isNull |-> TRUE, entries |-> << >>] } \cup
    { [isNull |-> FALSE, entries |-> e] :
        e \in { x \in SeqsUpTo([name : SampleNames, text : SampleTexts], MaxEntries) :
                  DistinctNames(x) } }

InitGetter ==
    /\ cache = [key \in Keys |-> NoEntry]
    /\ inProgress = [key \in Keys |-> FALSE]
    /\ comps = [key \in Keys |-> << >>]
    /\ waiters = [key \in Keys |-> {}]
    /\ failed = [key \in Keys |-> FALSE]
    /\ ret = NoRet
    /\ initPc = "start"
    /\ rows = [row \in Rows |-> BlankRow(FALSE)]
    /\ input \in [workflows : SampleResponses, files : SampleWorkflowFiles]
    /\ output = NoOutput

\* Both fetches resolve and the getter joins what they answered.
RunGetter ==
    /\ ~output.done
    /\ output' = [done |-> TRUE,
                  workflows |-> getWorkflows(input.workflows),
                  files |-> getFilesInWorkflowPath(input.files),
                  details |-> Aggregate(getWorkflows(input.workflows),
                                        getFilesInWorkflowPath(input.files))]
    /\ UNCHANGED << cacheVars, ret, pageVars, input >>

SpecGetter == InitGetter /\ [][RunGetter]_vars

----------------------------------------------------------------------------
(* addIndicators on its own: rows of a page whose lookup finds a fresh entry *)

SampleSchedules == { Undefined, << "30 5 * * 1" >>, << "bad" >> }

SampleDetails ==
    { EmptyMap } \cup
    { Put(EmptyMap, MainFile(PageRepo),
          [name |-> MainFile(PageRepo), isEnabled |-> e, schedule |-> s,
           manuallyDispatchable |-> d]) :
        e \in BOOLEAN, d \in BOOLEAN, s \in SampleSchedules }

InitRows ==
    /\ \E details \in SampleDetails :
          cache = [key \in Keys |->
                     IF key = CacheKey(PageRepo)
                     THEN [present |-> TRUE, value |-> details, age |-> 0]
                     ELSE NoEntry]
    /\ inProgress = [key \in Keys |-> FALSE]
    /\ comps = [key \in Keys |-> << >>]
    /\ waiters = [key \in Keys |-> {}]
    /\ failed = [key \in Keys |-> FALSE]
    /\ ret = NoRet
    /\ initPc = "observing"
    /\ rows \in [Rows -> {BlankRow(FALSE), BlankRow(TRUE)}]
    /\ input = IdleGetter
    /\ output = NoOutput

NextRows ==
    \/ \E row \in Rows : AddIndicators(row)
    \/ \E row \in Rows : TooltipTimer(row)

SpecRows == InitRows /\ [][NextRows]_vars

----------------------------------------------------------------------------
(* From the API responses to the rows: the entry that the rows' lookups find *)
(* is the getter's join of a sampled pair of responses                       *)

\* A definition with an unparsable cron expression that can also be started
\* by hand.
BadCronDispatchText ==
    << "on", ":", "\n", " ", "workflow_dispatch", ":", "\n", " ", "schedule", ":",
       "\n", " ", "-", " ", "cron", ":", " ", "bad", "\n" >>

PageResponses ==
    SeqsUpTo([path : {EmptyString, WorkflowsDir \o MainFile(PageRepo)},
              state : SampleStates], MaxWorkflows)

PageWorkflowFiles ==
    { [isNull |-> TRUE, entries |-> << >>], [isNull |-> FALSE, entries |-> << >>] } \cup
    { [isNull |-> FALSE, entries |-> << [name |-> MainFile(PageRepo), text |-> t] >>] :
        t \in {ScheduledText, BadCronText, BadCronDispatchText, Undefined} }

InitPipeline ==
    /\ input \in [workflows : PageResponses, files : PageWorkflowFiles]
    /\ output = [done |-> TRUE,
                 workflows |-> getWorkflows(input.workflows),
                 files |-> getFilesInWorkflowPath(input.files),
                 details |-> Aggregate(getWorkflows(input.workflows),
                                       getFilesInWorkflowPath(input.files))]
    /\ cache = [key \in Keys |->
                  IF key = CacheKey(PageRepo)
                  THEN [present |-> TRUE, value |-> output.details, age |-> 0]
                  ELSE NoEntry]
    /\ inProgress = [key \in Keys |-> FALSE]
    /\ comps = [key \in Keys |-> << >>]
    /\ waiters = [key \in Keys |-> {}]
    /\ failed = [key \in Keys |-> FALSE]
    /\ ret = NoRet
    /\ initPc = "observing"
    /\ rows \in [Rows -> {BlankRow(FALSE), BlankRow(TRUE)}]

SpecPipeline == InitPipeline /\ [][NextRows]_vars

----------------------------------------------------------------------------
(* The shared storage on its own: lookups for either repository, made from *)
(* pages other than the one modelled above, on entries of sampled ages     *)

\* One age of each kind: fresh, stale, past the horizon.
SampleAges == {0, MaxAge + 1, MaxAge + StaleWhileRevalidate + 1}

\* What the storage may hold for a repository.
SampleEntries(repo) ==
    { NoEntry } \cup
    { [present |-> TRUE, value |-> GetterResult([repo |-> repo, list |-> lv, files |-> fv]),
       age |-> age] :
        lv \in ListVersions, fv \in FilesVersions, age \in SampleAges }

InitRepos ==
    /\ cache \in [Keys -> UNION {SampleEntries(repo) : repo \in Repos}]
    /\ \A repo \in Repos : cache[CacheKey(repo)] \in SampleEntries(repo)
    /\ inProgress = [key \in Keys |-> FALSE]
    /\ comps = [key \in Keys |-> << >>]
    /\ waiters = [key \in Keys |-> {}]
    /\ failed = [key \in Keys |-> FALSE]
    /\ ret = NoRet
    /\ initPc = "start"
    /\ rows = [row \in Rows |-> BlankRow(FALSE)]
    /\ input = IdleGetter
    /\ output = NoOutput

NextRepos ==
    \/ \E repo \in Repos : TabLookup(repo)
    \/ \E key \in Keys : \E i \in 1..Len(comps[key]) :
           \E version \in ListVersions : ListFetched(key, i, version)
    \/ \E key \in Keys : \E i \in 1..Len(comps[key]) :
           \E version \in FilesVersions : FilesFetched(key, i, version)
    \/ \E key \in Keys : \E i \in 1..Len(comps[key]) : FetchFailed(key, i)

SpecRepos == InitRepos /\ [][NextRepos]_vars

----------------------------------------------------------------------------
(* The Cron Projector, parseCron.nextDate(schedule), on its own.  An        *)
(* expression is a token sequence whose tokens are numbers, "*", "/", "-",  *)
(* "," and " ".  An instant is a number of minutes since 1 January, 00:00,  *)
(* of a year of 365 days that starts on a Thursday; the years that follow   *)
(* have 365 days too.                                                       *)

\* No next occurrence.
Nothing == -1

\* The days searched for an occurrence: today and the year after it.
SearchDays == 366

\* minute, hour, day of month, month, day of week (0 is Sunday)
FieldRanges == << << 0, 59 >>, << 0, 23 >>, << 1, 31 >>, << 1, 12 >>, << 0, 6 >> >>

DaysInMonth == << 31, 28, 31, 30, 31, 30, 31, 31, 30, 31, 30, 31 >>

IsNumber(token) == \E n \in 0..59 : ToString(n) = token
NumberOf(token) == CHOOSE n \in 0..59 : ToString(n) = token

\* s.split(sep): the runs of tokens between the separators.
RECURSIVE SplitOn(_, _)
SplitOn(s, sep) ==
    IF s = << >> THEN << << >> >>
    ELSE LET rest == SplitOn(Tail(s), sep) IN
         IF Head(s) = sep THEN << << >> >> \o rest
         ELSE << << Head(s) >> \o Head(rest) >> \o Tail(rest)

\* The values one item of a field stands for: "*", "*/n", "n" or "a-b"; the
\* empty set for anything else.
ParseItem(item, range) ==
    LET lo == range[1]
        hi == range[2]
    IN CASE item = << "*" >> -> lo..hi
         [] Len(item) = 3 /\ item[1] = "*" /\ item[2] = "/" /\ IsNumber(item[3])
              /\ NumberOf(item[3]) >= 1 ->
                {v \in lo..hi : (v - lo) % NumberOf(item[3]) = 0}
         [] Len(item) = 1 /\ IsNumber(item[1]) /\ NumberOf(item[1]) \in lo..hi ->
                {NumberOf(item[1])}
         [] Len(item) = 3 /\ IsNumber(item[1]) /\ item[2] = "-" /\ IsNumber(item[3])
              /\ lo <= NumberOf(item[1]) /\ NumberOf(item[1]) <= NumberOf(item[3])
              /\ NumberOf(item[3]) <= hi ->
                NumberOf(item[1])..NumberOf(item[3])
         [] OTHER -> {}

\* The values of a field, a list of items; the empty set when an item is bad.
ParseField(field, range) ==
    LET items == SplitOn(field, ",") IN
    IF \E i \in 1..Len(items) : ParseItem(items[i], range) = {} THEN {}
    ELSE UNION {ParseItem(items[i], range) : i \in 1..Len(items)}

NotParsed ==
    [ok |-> FALSE, minutes |-> {}, hours |-> {}, days |-> {}, months |-> {},
     weekDays |-> {}, anyDay |-> FALSE, anyWeekDay |-> FALSE]

\* The schedule of a five-field expression.
parseCron(expr) ==
    LET fields == SplitOn(expr, " ") IN
    IF Len(fields) # 5 THEN NotParsed
    ELSE LET sets == [i \in 1..5 |-> ParseField(fields[i], FieldRanges[i])] IN
         IF \E i \in 1..5 : sets[i] = {} THEN NotParsed
         ELSE [ok |-> TRUE, minutes |-> sets[1], hours |-> sets[2], days |-> sets[3],
               months |-> sets[4], weekDays |-> sets[5],
               anyDay |-> fields[3] = << "*" >>,
               anyWeekDay |-> fields[5] = << "*" >>]

\* The month and the day of the month of a day of the year (0 is 1 January).
RECURSIVE DateOf(_, _)
DateOf(dayOfYear, month) ==
    IF dayOfYear < DaysInMonth[month] THEN [month |-> month, day |-> dayOfYear + 1]
    ELSE DateOf(dayOfYear - DaysInMonth[month], month + 1)

WeekDay(day) == (day + 4) % 7

\* The day is one of the schedule: its month is, and its day of the month or
\* its day of the week is (the one that is restricted or, both being
\* restricted, either).
DayFits(schedule, day) ==
    LET date == DateOf(day % 365, 1) IN
    /\ date.month \in schedule.months
    /\ IF schedule.anyDay THEN WeekDay(day) \in schedule.weekDays
       ELSE IF schedule.anyWeekDay THEN date.day \in schedule.days
       ELSE date.day \in schedule.days \/ WeekDay(day) \in schedule.weekDays

\* The minutes of a day at which the schedule fires.
TimesOfDay(schedule) == {h * 60 + m : h \in schedule.hours, m \in schedule.minutes}

Earliest(instants) == CHOOSE x \in instants : \A y \in instants : x <= y

\* Variant: an occurrence at `now` itself counts.
NotBefore(instant, now) == instant >= now

After(instant, now) == instant > now

\* The occurrences of the schedule on a day that come after now.
TimesAfter(schedule, day, now) ==
    {x \in TimesOfDay(schedule) : After(day * 1440 + x, now)}

\* The first occurrence after now on the first of the days searched that has
\* one.
NextFrom(schedule, today, now) ==
    LET days == {day \in today..(today + SearchDays - 1) :
                    DayFits(schedule, day) /\ TimesAfter(schedule, day, now) # {}}
    IN IF days = {} THEN Nothing
       ELSE Earliest(days) * 1440 + Earliest(TimesAfter(schedule, Earliest(days), now))

\* nextOccurrence(cronExpression, now)
nextOccurrence(expr, now) ==
    LET schedule == parseCron(expr) IN
    IF ~schedule.ok THEN Nothing
    ELSE NextFrom(schedule, now \div 1440, now)

\* Sample expressions, each with what it means: whether it is a valid
\* expression and the values its five fields allow.
EveryMinute == 0..59
EveryHour == 0..23
EveryDay == 1..31
EveryMonth == 1..12
EveryWeekDay == 0..6

Sample(expr, valid, minutes, hours, days, months, weekDays, anyDay, anyWeekDay) ==
    [expr |-> expr, valid |-> valid, minutes |-> minutes, hours |-> hours,
     days |-> days, months |-> months, weekDays |-> weekDays, anyDay |-> anyDay,
     anyWeekDay |-> anyWeekDay]

BadSample(expr) == Sample(expr, FALSE, {}, {}, {}, {}, {}, FALSE, FALSE)

SampleCrons ==
    { Sample(<< "30", " ", "5", " ", "*", " ", "*", " ", "1" >>, TRUE,
             {30}, {5}, EveryDay, EveryMonth, {1}, TRUE, FALSE),
      Sample(<< "0", " ", "0", " ", "*", " ", "*", " ", "*" >>, TRUE,
             {0}, {0}, EveryDay, EveryMonth, EveryWeekDay, TRUE, TRUE),
      Sample(<< "*", "/", "15", " ", "*", " ", "*", " ", "*", " ", "*" >>, TRUE,
             {0, 15, 30, 45}, EveryHour, EveryDay, EveryMonth, EveryWeekDay, TRUE, TRUE),
      Sample(<< "0", " ", "9", "-", "17", " ", "*", " ", "*", " ", "1", "-", "5" >>, TRUE,
             {0}, 9..17, EveryDay, EveryMonth, 1..5, TRUE, FALSE),
      Sample(<< "0", " ", "0", " ", "1", " ", "1", " ", "*" >>, TRUE,
             {0}, {0}, {1}, {1}, EveryWeekDay, FALSE, TRUE),
      Sample(<< "59", " ", "23", " ", "31", " ", "*", " ", "*" >>, TRUE,
             {59}, {23}, {31}, EveryMonth, EveryWeekDay, FALSE, TRUE),
      Sample(<< "0", " ", "12", " ", "1", ",", "15", " ", "*", " ", "0" >>, TRUE,
             {0}, {12}, {1, 15}, EveryMonth, {0}, FALSE, FALSE),
      Sample(<< "0", ",", "30", " ", "*", "/", "6", " ", "*", " ", "2", " ", "*" >>, TRUE,
             {0, 30}, {0, 6, 12, 18}, EveryDay, {2}, EveryWeekDay, TRUE, TRUE),
      \* 31 February, 30 February: valid, and never matching
      Sample(<< "0", " ", "0", " ", "31", " ", "2", " ", "*" >>, TRUE,
             {0}, {0}, {31}, {2}, EveryWeekDay, FALSE, TRUE),
      Sample(<< "0", " ", "0", " ", "30", "-", "31", " ", "2", " ", "*" >>, TRUE,
             {0}, {0}, {30, 31}, {2}, EveryWeekDay, FALSE, TRUE),
      \* invalid: not an expression, four fields, six fields, a minute 60, a
      \* step of 0, a range that runs backwards, an empty list item
      BadSample(<< "bad" >>),
      BadSample(<< "0", " ", "0", " ", "*", " ", "*" >>),
      BadSample(<< "0", " ", "0", " ", "*", " ", "*", " ", "*", " ", "*" >>),
      BadSample(<< "60", " ", "*", " ", "*", " ", "*", " ", "*" >>),
      BadSample(<< "*", "/", "0", " ", "*", " ", "*", " ", "*", " ", "*" >>),
      BadSample(<< "0", " ", "17", "-", "9", " ", "*", " ", "*", " ", "*" >>),
      BadSample(<< "0", ",", " ", "*", " ", "*", " ", "*", " ", "*" >>) }

\* The instant of a time of a day of the year.
At(dayOfYear, hour, minute) == (dayOfYear * 24 + hour) * 60 + minute

\* Instants right at, right before and right after occurrences of the samples,
\* and at the ends of a day, of a month and of the year.
SampleNows ==
    { At(0, 0, 0), At(0, 0, 1), At(0, 8, 59), At(0, 17, 0),
      At(4, 5, 29), At(4, 5, 30), At(4, 5, 31),
      At(30, 23, 58), At(30, 23, 59), At(58, 23, 59), At(59, 0, 0),
      At(364, 23, 59), At(365, 0, 0) }

InitCron ==
    /\ cache = [key \in Keys |-> NoEntry]
    /\ inProgress = [key \in Keys |-> FALSE]
    /\ comps = [key \in Keys |-> << >>]
    /\ waiters = [key \in Keys |-> {}]
    /\ failed = [key \in Keys |-> FALSE]
    /\ ret = NoRet
    /\ initPc = "observing"
    /\ rows = [row \in Rows |-> BlankRow(FALSE)]
    /\ input \in [sample : SampleCrons, now : SampleNows]
    /\ output = [done |-> FALSE, next |-> Nothing]

\* addIndicators asks for the next date of a schedule (line 135).
Project ==
    /\ ~output.done
    /\ output' = [done |-> TRUE, next |-> nextOccurrence(input.sample.expr, input.now)]
    /\ UNCHANGED << cacheVars, ret, pageVars, input >>

SpecCron == InitCron /\ [][Project]_vars

----------------------------------------------------------------------------
(* The scan of one definition text on its own: every text of a few tokens *)

MaxTextLen == 5

\* The words of the regular expression, one of them in capitals too, a token
\* of each combination of its character classes, and a plain token.
CronTokens == {"schedule", "SCHEDULE", "cron", ":", "-", "'", "\n", "0"}

InitScan(tokens, maxLen) ==
    /\ cache = [key \in Keys |-> NoEntry]
    /\ inProgress = [key \in Keys |-> FALSE]
    /\ comps = [key \in Keys |-> << >>]
    /\ waiters = [key \in Keys |-> {}]
    /\ failed = [key \in Keys |-> FALSE]
    /\ ret = NoRet
    /\ initPc = "start"
    /\ rows = [row \in Rows |-> BlankRow(FALSE)]
    /\ input \in [workflow : {[name |-> << "a.yml" >>, isEnabled |-> TRUE]},
                   text : SeqsUpTo(tokens, maxLen)]
    /\ output = [done |-> FALSE, details |-> EmptyMap]

\* Lines 88-94 for one workflow and its text.
Scan ==
    /\ ~output.done
    /\ output' = [done |-> TRUE, details |-> Details(input.workflow, input.text)]
    /\ UNCHANGED << cacheVars, ret, pageVars, input >>

SpecCronScan == InitScan(CronTokens, MaxTextLen) /\ [][Scan]_vars

\* The trigger's name, a longer word that ends with it, the colon, and what
\* may stand around them: a blank, a line break, a comment sign.
DispatchTokens == {"workflow_dispatch", "my_workflow_dispatch", ":", " ", "\n", "#"}

SpecDispatchScan == InitScan(DispatchTokens, MaxTextLen) /\ [][Scan]_vars

----------------------------------------------------------------------------
(* Properties of the freshness cache *)

\* The step is a call of getWorkflowsDetails() for key.
LookupStep(key) == ret'.kind \in {"hit", "wait"} /\ ret'.key = key

\* The step ends a computation for key.
CompletionStep(key) ==
    ret'.kind \in {"resolved", "rejected", "revalidated", "logged"} /\ ret'.key = key

\* C1, as stated: at most one recomputation per key is in flight, and every
\* lookup that arrives while one is pending returns the stored value and
\* starts no second one.
C1_Original ==
    [][\A key \in Keys :
         LookupStep(key) /\ comps[key] # << >> =>
             /\ ret' = Hit(key, cache[key].value)
             /\ comps' = comps
             /\ Len(comps'[key]) <= 1]_vars

\* C1, amended: at most one recomputation per key is in flight at any time; a
\* lookup that arrives while one is pending starts no second one, returns the
\* stored value when the entry is at most 11 days old, and otherwise (no
\* entry, or one past the horizon) awaits the pending computation.
C1_SingleFlight ==
    [][\A key \in Keys :
         /\ Len(comps'[key]) <= 1
         /\ LookupStep(key) /\ comps[key] # << >> =>
               /\ comps' = comps
               /\ cache' = cache
               /\ IF cache[key].present /\ cache[key].age <= 11
                    THEN ret' = Hit(key, cache[key].value) /\ waiters' = waiters
                    ELSE ret' = Wait(key) /\ waiters'[key] # {}]_vars

\* A lookup was answered from the cache while a computation, one of whose
\* fetches has already resolved, is in flight.
C1_Witness ==
    \E key \in Keys :
        /\ ret = Hit(key, cache[key].value)
        /\ Len(comps[key]) = 1
        /\ comps[key][1].list # Pending

\* C2: a lookup on an entry more than 1 day and at most 11 days old returns
\* the stored value at once, without awaiting any fetch, and leaves a
\* recomputation for the key scheduled: the one it starts, both fetches
\* pending, unless one was already in flight.
C2_StaleServed ==
    [][\A key \in Keys :
         LookupStep(key) /\ cache[key].present
             /\ cache[key].age > 1 /\ cache[key].age <= 11 =>
                 /\ ret' = Hit(key, cache[key].value)
                 /\ cache' = cache
                 /\ waiters' = waiters
                 /\ inProgress'[key]
                 /\ Len(comps'[key]) = 1
                 /\ comps[key] = << >> =>
                       /\ comps'[key][1].list = Pending
                       /\ comps'[key][1].files = Pending]_vars

\* A stale entry was served and its revalidation has just been started.
C2_Witness ==
    \E key \in Keys :
        /\ ret = Hit(key, cache[key].value)
        /\ cache[key].age > 1 /\ cache[key].age <= 11
        /\ comps[key] = << NewComputation(key) >>
        /\ ~failed[key]

\* C3, as stated: once a background revalidation has failed, every later
\* lookup on the key returns the prior stored value, until a revalidation
\* succeeds.
C3_Original ==
    [][\A key \in Keys :
         LookupStep(key) /\ failed[key] => ret' = Hit(key, cache[key].value)]_vars

\* C3, amended: a failed background revalidation is surfaced to no caller and
\* leaves the entry (value and age) and the page as they were, with the key no
\* longer marked; until a revalidation succeeds, later lookups return the
\* prior value at once for as long as the entry is at most 11 days old.
C3_Absorbed ==
    [][\A key \in Keys :
         /\ ret' = Logged(key) =>
               /\ cache' = cache
               /\ pageVars' = pageVars
               /\ waiters' = waiters
               /\ ~inProgress'[key]
         /\ LookupStep(key) /\ failed[key] /\ cache[key].age <= 11 =>
               /\ ret' = Hit(key, cache[key].value)
               /\ cache' = cache]_vars

\* After a failed revalidation the entry, still stale, was served again.
C3_Witness ==
    \E key \in Keys :
        /\ failed[key]
        /\ ret = Hit(key, cache[key].value)
        /\ cache[key].age > 1

\* C4: a lookup that finds no entry, or one older than 11 days, returns no
\* stored value: the caller awaits the one computation in flight for the key;
\* when it resolves the result is stored with age 0 and given to the caller,
\* when it fails the caller gets the error and the cache is left as it was.
C4_MissComputes ==
    [][\A key \in Keys :
         /\ LookupStep(key) /\ (~cache[key].present \/ cache[key].age > 11) =>
               /\ ret' = Wait(key)
               /\ cache' = cache
               /\ waiters[key] \subseteq waiters'[key] /\ waiters'[key] # {}
               /\ Len(comps'[key]) = 1
         /\ waiters'[key] # {} => comps'[key] # << >>
         /\ ret'.kind = "resolved" /\ ret'.key = key =>
               /\ waiters[key] # {} /\ waiters'[key] = {}
               /\ cache'[key] = [present |-> TRUE, value |-> ret'.value, age |-> 0]
               /\ "init" \in waiters[key] => initPc' = "observing"
         /\ ret'.kind = "rejected" /\ ret'.key = key =>
               /\ waiters[key] # {} /\ waiters'[key] = {}
               /\ cache' = cache
               /\ rows' = rows
               /\ "init" \in waiters[key] => initPc' = "failed"]_vars

\* The computation for an entry past the horizon failed: the caller got the
\* error and the old entry is still there.
C4_Witness ==
    \E key \in Keys :
        /\ ret = Rejected(key)
        /\ cache[key].present
        /\ cache[key].age > 11

\* C5: while an entry is at most 1 day old no computation is in flight for its
\* key, and a lookup on it returns the stored value and changes nothing in
\* the cache: no fetch is started.
C5_FreshServed ==
    [][\A key \in Keys :
         /\ cache'[key].present /\ cache'[key].age <= 1 =>
               comps'[key] = << >> /\ ~inProgress'[key]
         /\ LookupStep(key) /\ cache[key].present /\ cache[key].age <= 1 =>
               /\ ret' = Hit(key, cache[key].value)
               /\ cacheVars' = cacheVars]_vars

\* An entry one day old was served.
C5_Witness ==
    \E key \in Keys :
        /\ ret = Hit(key, cache[key].value)
        /\ cache[key].present
        /\ cache[key].age = 1

\* What the join of the sample data read at two versions must be.
ExpectedDetails(repo, listVersion, filesVersion) ==
    Put(EmptyMap, MainFile(repo),
        [name |-> MainFile(repo),
         isEnabled |-> (listVersion % 2 = 1),
         schedule |-> IF filesVersion % 2 = 1 THEN << "30 5 * * 1" >> ELSE Undefined,
         manuallyDispatchable |-> (filesVersion % 2 = 1)])

\* C6: a background revalidation that succeeds replaces the entry of its key
\* by the newly aggregated mapping with age 0; a lookup made within a day of
\* it returns that mapping and starts no recomputation.
C6_Replaced ==
    [][\A key \in Keys :
         /\ ret'.kind = "revalidated" /\ ret'.key = key =>
               /\ Len(comps[key]) = 1 /\ comps'[key] = << >>
               /\ \E lv \in ListVersions, fv \in FilesVersions :
                     /\ comps[key][1].list \in {Pending, lv}
                     /\ comps[key][1].files \in {Pending, fv}
                     /\ cache'[key] =
                          [present |-> TRUE,
                           value |-> ExpectedDetails(comps[key][1].repo, lv, fv),
                           age |-> 0]
               /\ ret'.value = cache'[key].value
               /\ \A other \in Keys \ {key} : cache'[other] = cache[other]
         /\ LookupStep(key) /\ cache[key].present /\ cache[key].age <= 1 =>
               /\ ret' = Hit(key, cache[key].value)
               /\ comps' = comps]_vars

\* A background revalidation has just replaced the entry by a mapping in
\* which the workflow is disabled.
C6_Witness ==
    \E key \in Keys :
        /\ ret = Revalidated(key, cache[key].value)
        /\ cache[key].age = 0
        /\ \E name \in DOMAIN cache[key].value : ~cache[key].value[name].isEnabled

\* C7: a key is marked in progress exactly while a computation is in flight
\* for it; whenever a computation ends, resolved or failed, the marker is
\* cleared; after a failed revalidation the next lookup on the still stale
\* entry starts a new one.
C7_MarkerCleared ==
    [][\A key \in Keys :
         /\ inProgress'[key] <=> comps'[key] # << >>
         /\ CompletionStep(key) => ~inProgress'[key]
         /\ LookupStep(key) /\ failed[key] /\ comps[key] = << >>
               /\ cache[key].age > 1 /\ cache[key].age <= 11 =>
                   /\ Len(comps'[key]) = 1
                   /\ comps'[key][1].list = Pending
                   /\ comps'[key][1].files = Pending]_vars

\* After a failed revalidation a lookup has started a new one.
C7_Witness ==
    \E key \in Keys :
        /\ failed[key]
        /\ ret = Hit(key, cache[key].value)
        /\ Len(comps[key]) = 1
        /\ comps[key][1].list = Pending /\ comps[key][1].files = Pending
        /\ inProgress[key]

----------------------------------------------------------------------------
(* Properties of the getter *)

\* The names of the summaries, and the names that have a definition text.
SummaryNames(workflows) == {workflows[i].name : i \in 1..Len(workflows)}
DefinedNames(files) == {name \in DOMAIN files : files[name] # Undefined}

\* The last summary of the list that bears the name.
LastSummary(workflows, name) ==
    workflows[CHOOSE i \in 1..Len(workflows) :
                /\ workflows[i].name = name
                /\ \A j \in (i + 1)..Len(workflows) : workflows[j].name # name]

\* What the three sample texts hold.
ExpectedSchedule(text) ==
    IF text = ScheduledText THEN << "30 5 * * 1" >>
    ELSE IF text = BadCronText THEN << "bad" >>
    ELSE Undefined
ExpectedDispatchable(text) == (text = ScheduledText)

\* C8: the mapping the getter produces holds exactly the names that occur both
\* among the summaries and among the definitions (the entries that have a
\* text); each record carries the isEnabled of its summary and the schedule
\* and manuallyDispatchable read from its definition text.
C8_Join ==
    output.done =>
        /\ DOMAIN output.details =
               SummaryNames(output.workflows) \cap DefinedNames(output.files)
        /\ \A name \in DOMAIN output.details :
               output.details[name] =
                   [name |-> name,
                    isEnabled |-> LastSummary(output.workflows, name).isEnabled,
                    schedule |-> ExpectedSchedule(output.files[name]),
                    manuallyDispatchable |-> ExpectedDispatchable(output.files[name])]

\* A join with a name on both sides, one only among the summaries and one
\* only among the definitions.
C8_Witness ==
    /\ output.done
    /\ output.details # EmptyMap
    /\ SummaryNames(output.workflows) \ DefinedNames(output.files) # {}
    /\ DefinedNames(output.files) \ SummaryNames(output.workflows) # {}

\* Every mapping a whole computation for the repository can produce.
FullDetails(repo) ==
    {ExpectedDetails(repo, lv, fv) : lv \in ListVersions, fv \in FilesVersions}

\* C9: a computation starts with both fetches pending; the cache is written,
\* and a computed mapping given to a caller, only by the step in which the
\* second of the two fetches resolves; a failed computation writes nothing;
\* every mapping stored or returned is the join of a whole workflow list with
\* a whole set of definitions.
C9_AllOrNothing ==
    [][\A key \in Keys :
         /\ Len(comps'[key]) > Len(comps[key]) =>
               /\ comps'[key][Len(comps'[key])].list = Pending
               /\ comps'[key][Len(comps'[key])].files = Pending
         /\ (cache'[key].value # cache[key].value
               \/ (ret'.kind \in {"resolved", "revalidated"} /\ ret'.key = key)) =>
               /\ Len(comps[key]) = 1 /\ comps'[key] = << >>
               /\ comps[key][1].list # Pending \/ comps[key][1].files # Pending
               /\ cache'[key].value = ret'.value
         /\ ret'.kind \in {"rejected", "logged"} => cache' = cache
         /\ cache'[key].present => cache'[key].value \in FullDetails(key)
         /\ ret'.kind \in {"hit", "resolved", "revalidated"} /\ ret'.key = key =>
               ret'.value \in FullDetails(key)]_vars

\* The definitions have been fetched while the workflow list is still awaited.
C9_Witness ==
    \E key \in Keys :
        /\ Len(comps[key]) = 1
        /\ comps[key][1].files # Pending
        /\ comps[key][1].list = Pending

----------------------------------------------------------------------------
(* Properties of addIndicators *)

\* The step is a call of addIndicators on row.
CallStep(row) == rows'[row].calls = rows[row].calls + 1

\* The indicators of the row's workflow are added to the row, each on its own
\* condition.
IndicatorsAdded(row, workflow) ==
    /\ rows'[row].trailers = rows[row].trailers + 1
    /\ rows'[row].stops = rows[row].stops + (IF workflow.isEnabled THEN 0 ELSE 1)
    /\ rows'[row].plays =
           rows[row].plays + (IF workflow.manuallyDispatchable THEN 1 ELSE 0)
    /\ rows'[row].nexts =
           rows[row].nexts + (IF workflow.schedule # Undefined
                                   /\ workflow.schedule \in ValidCrons
                               THEN 1 ELSE 0)

\* C10, as stated: for every row whose workflow is in the mapping, a call of
\* addIndicators produces the disabled indicator iff isEnabled is false, the
\* dispatchable one iff manuallyDispatchable, the next-run one iff a schedule
\* is present and the projector yields a date.
C10_Original ==
    [][\A row \in Rows :
         CallStep(row) /\ ~IsMissing(CacheKey(PageRepo))
             /\ LastSegment(RowHref(row)) \in DOMAIN cache[CacheKey(PageRepo)].value =>
                 IndicatorsAdded(row,
                     cache[CacheKey(PageRepo)].value[LastSegment(RowHref(row))])]_vars

\* C10, amended: for every row that holds no stop icon when addIndicators is
\* called and whose workflow is in the mapping, the three indicators are
\* decided independently, each on its own condition; on a row that already
\* holds a stop icon addIndicators returns at once and adds nothing.
C10_Independent ==
    [][\A row \in Rows :
         CallStep(row) =>
             LET key == CacheKey(PageRepo)
                 name == LastSegment(RowHref(row))
             IN IF rows[row].stops > 0
                THEN /\ rows'[row] = [rows[row] EXCEPT !.calls = @ + 1]
                     /\ ret' = NoRet
                ELSE /\ ret' = Hit(key, cache[key].value)
                     /\ name \in DOMAIN cache[key].value =>
                           IndicatorsAdded(row, cache[key].value[name])
                     /\ name \notin DOMAIN cache[key].value =>
                           rows'[row] = [rows[row] EXCEPT !.calls = @ + 1]]_vars

\* One call gave a row all three indicators.
C10_Witness ==
    \E row \in Rows :
        /\ rows[row].calls = 1
        /\ rows[row].trailers = 1
        /\ rows[row].stops = 1
        /\ rows[row].plays = 1
        /\ rows[row].nexts = 1

----------------------------------------------------------------------------
(* Properties of init *)

\* addIndicators has not touched the row.
Untouched(row) ==
    /\ row.calls = 0 /\ row.trailers = 0 /\ row.plays = 0 /\ row.nexts = 0
    /\ row.timers = 0 /\ row.tooltip = << >> /\ row.stops <= 1

\* C11: when the computation awaited by init's first lookup fails, init ends
\* with the error and stays there: the observer is never registered; as long
\* as init has not got a value from its first lookup no row is handed to
\* addIndicators and no row holds an indicator of this feature; init gets to
\* register the observer only by a hit or by the computation resolving.
C11_InitFirst ==
    [][/\ (ret'.kind = "rejected" /\ "init" \in waiters[ret'.key]) => initPc' = "failed"
       /\ initPc = "failed" => initPc' = "failed"
       /\ initPc' # "observing" => \A row \in Rows : Untouched(rows'[row])
       /\ \A row \in Rows : CallStep(row) => initPc = "observing"
       /\ (initPc # "observing" /\ initPc' = "observing") =>
              \/ initPc = "start" /\ ret'.kind = "hit"
              \/ initPc = "waiting" /\ ret'.kind = "resolved"
                    /\ "init" \in waiters[ret'.key]]_vars

\* init's first lookup missed and its computation failed.
C11_Witness ==
    /\ initPc = "failed"
    /\ ret = Rejected(CacheKey(PageRepo))
    /\ ~cache[CacheKey(PageRepo)].present

----------------------------------------------------------------------------
(* Properties of a cron expression that cannot be parsed *)

BadCronTexts == {BadCronText, BadCronDispatchText}

\* C12: for a workflow whose definition holds a cron string that the Cron
\* Projector cannot parse, the join stores the captured text as it is, the
\* projector yields nothing for it, and a call of addIndicators for the
\* workflow's row ends without an error, adds no next-run label and starts no
\* tooltip timer, and still adds the stop icon iff the workflow is not enabled
\* and the play icon iff it can be started by hand.
C12_BadCron ==
    [][\A row \in Rows :
         LET name == LastSegment(RowHref(row))
             text == Get(output.files, name)
         IN CallStep(row) /\ name \in DOMAIN output.details /\ text \in BadCronTexts =>
               LET workflow == output.details[name] IN
               /\ workflow.schedule = << "bad" >>
               /\ NextDate(workflow.schedule) = NoDate
               /\ rows'[row].nexts = rows[row].nexts
               /\ rows'[row].timers = rows[row].timers
               /\ rows[row].stops = 0 =>
                     /\ ret' = Hit(CacheKey(PageRepo), output.details)
                     /\ rows'[row].trailers = rows[row].trailers + 1
                     /\ rows'[row].stops = IF workflow.isEnabled THEN 0 ELSE 1
                     /\ rows'[row].plays =
                            rows[row].plays +
                                (IF text = BadCronDispatchText THEN 1 ELSE 0)]_vars

\* A disabled workflow with an unparsable cron expression that can be started
\* by hand: its row got the stop icon and the play icon, and no label.
C12_Witness ==
    \E row \in Rows :
        LET name == LastSegment(RowHref(row)) IN
        /\ name \in DOMAIN output.details
        /\ Get(output.files, name) = BadCronDispatchText
        /\ output.details[name].schedule = << "bad" >>
        /\ ~output.details[name].isEnabled
        /\ rows[row].calls = 1 /\ rows[row].trailers = 1
        /\ rows[row].stops = 1 /\ rows[row].plays = 1 /\ rows[row].nexts = 0

----------------------------------------------------------------------------
(* Properties of the cache key *)

\* What the storage holds for a key, with its computations and callers.
Partition(c, ip, cs, ws, key) == << c[key], ip[key], cs[key], ws[key] >>

\* C13: a lookup for repository A, and every step of a computation for A,
\* leaves the entry, the marker, the computations and the callers of every
\* other repository as they were; a lookup for A is answered from A's entry
\* alone, and an entry of A is only ever replaced by a mapping joined from A's
\* own data; a lookup for B that finds B's entry not fresh and nothing in
\* flight for B starts B's computation whatever is in flight for A.
C13_Partitioned ==
    [][\A A \in Repos :
         LET a == CacheKey(A) IN
         /\ (LookupStep(a) \/ CompletionStep(a) \/ comps'[a] # comps[a]) =>
               \A B \in Repos \ {A} :
                  Partition(cache', inProgress', comps', waiters', CacheKey(B)) =
                      Partition(cache, inProgress, comps, waiters, CacheKey(B))
         /\ LookupStep(a) =>
               ret' = IF ~cache[a].present \/ cache[a].age > 11
                      THEN Wait(a) ELSE Hit(a, cache[a].value)
         /\ cache'[a] # cache[a] =>
               /\ CompletionStep(a)
               /\ cache'[a].value \in FullDetails(A)
         /\ (LookupStep(a) /\ ~IsFresh(a) /\ comps[a] = << >>) =>
               /\ Len(comps'[a]) = 1
               /\ comps'[a][1].repo = A]_vars

\* Recomputations for both repositories are in flight at once, and each
\* repository has its own entry.
C13_Witness ==
    /\ \A repo \in Repos :
          /\ comps[CacheKey(repo)] # << >>
          /\ cache[CacheKey(repo)].present
          /\ cache[CacheKey(repo)].value \in FullDetails(repo)
    /\ \E repo \in Repos : comps[CacheKey(repo)][1].list # Pending
    /\ cache[CacheKey("r1")].value # cache[CacheKey("r2")].value

----------------------------------------------------------------------------
(* Properties of the Cron Projector *)

\* The instant is one at which the sample fires.
Fits(sample, instant) ==
    /\ instant % 60 \in sample.minutes
    /\ (instant \div 60) % 24 \in sample.hours
    /\ DayFits(sample, instant \div 1440)

\* The sample fires at no instant strictly between lo and hi.
NoFitBetween(sample, lo, hi) ==
    \A day \in (lo \div 1440)..(hi \div 1440) :
        DayFits(sample, day) =>
            \A x \in TimesOfDay(sample) :
                ~(lo < day * 1440 + x /\ day * 1440 + x < hi)

----------------------------------------------------------------------------
(* Properties of the definition fetcher *)

\* The names of the entries of the tree that are plain files (Blobs).
PlainFileNames(workflowFiles) ==
    IF workflowFiles.isNull THEN {}
    ELSE {workflowFiles.entries[i].name :
            i \in {j \in 1..Len(workflowFiles.entries) :
                      workflowFiles.entries[j].text # Undefined}}

\* C15, as stated: the mapping of getFilesInWorkflowPath has a key exactly for
\* the entries that are plain files, none for a subdirectory, and it is empty
\* for an empty or missing directory.
C15_Original ==
    output.done =>
        /\ DOMAIN output.files = PlainFileNames(input.files)
        /\ (input.files.isNull \/ input.files.entries = << >>) =>
              output.files = EmptyMap

----------------------------------------------------------------------------
(* Properties of the schedule scan *)

\* Capitals count as small letters.
Lower(token) == IF token = "SCHEDULE" THEN "schedule" ELSE token

\* A match can start at i: the word `schedule` (as `same` compares words), one
\* or more of colon, white space and hyphen, the word `cron` at k, one or more
\* of colon, white space and quote, and at q a token that is neither a quote
\* nor a line break.
CronAt(text, i, k, same(_, _)) ==
    /\ same(text[i], "schedule")
    /\ k > i + 1
    /\ \A j \in (i + 1)..(k - 1) : text[j] \in {":", " ", "\n", "-"}
    /\ same(text[k], "cron")

CaptureAt(text, k, q) ==
    /\ q > k + 1
    /\ \A j \in (k + 1)..(q - 1) : text[j] \in {":", " ", "\n", "'", "\""}
    /\ text[q] \notin {"'", "\"", "\n"}

MatchStarts(text, same(_, _)) ==
    {i \in 1..Len(text) :
        \E k \in (i + 2)..Len(text) :
            /\ CronAt(text, i, k, same)
            /\ \E q \in (k + 2)..Len(text) : CaptureAt(text, k, q)}

\* The capture of the first match: it starts as far to the right as the
\* separators after `cron` allow and runs up to the next quote or line break,
\* or to the end of the text.
FirstCapture(text, same(_, _)) ==
    LET starts == MatchStarts(text, same) IN
    IF starts = {} THEN Undefined
    ELSE LET i == CHOOSE x \in starts : \A y \in starts : x <= y
             k == CHOOSE x \in (i + 2)..Len(text) : CronAt(text, i, x, same)
             qs == {x \in (k + 2)..Len(text) : CaptureAt(text, k, x)}
             q == CHOOSE x \in qs : \A y \in qs : y <= x
             es == {x \in q..Len(text) :
                      \A j \in q..x : text[j] \notin {"'", "\"", "\n"}}
             e == CHOOSE x \in es : \A y \in es : y <= x
         IN SubSeq(text, q, e)

SameWord(a, b) == a = b
SameLetters(a, b) == Lower(a) = Lower(b)

\* C16, as stated: the schedule is the capture of the first match of a
\* `schedule:` block followed by a `cron:` key, whatever the case of the two
\* words, and it is absent when the text has no `cron:` key.
C16_Original ==
    output.done =>
        /\ output.details.schedule = FirstCapture(input.text, SameLetters)
        /\ (~\E i \in 1..(Len(input.text) - 1) :
                Lower(input.text[i]) = "cron" /\ input.text[i + 1] = ":") =>
              output.details.schedule = Undefined

\* C16: the schedule is the capture of the first match, in the text, of the
\* word `schedule` in small letters, one or more colons, white-space
\* characters or hyphens (line breaks included), the word `cron` in small
\* letters, and one or more colons, white-space characters or quotes; the
\* capture runs up to the next quote or line break; the schedule is absent
\* when the text has no such match.
C16_FirstCapture ==
    output.done => output.details.schedule = FirstCapture(input.text, SameWord)

\* A quoted expression on the line after `schedule` is captured.
C16_Witness ==
    /\ output.done
    /\ input.text = << "schedule", "\n", "cron", "'", "0" >>
    /\ output.details.schedule = << "0" >>

----------------------------------------------------------------------------
(* Properties of the list fetcher *)

\* name is what follows the last "/" of path (all of it when it has none).
IsFinalSegment(path, name) ==
    /\ Len(name) <= Len(path)
    /\ name = SubSeq(path, Len(path) - Len(name) + 1, Len(path))
    /\ \A j \in 1..Len(name) : name[j] # "/"
    /\ Len(name) = Len(path) \/ path[Len(path) - Len(name)] = "/"

\* C17: getWorkflows turns every summary of the response, in order and
\* without dropping or merging any, into a record whose name is the final
\* "/"-segment of the path and whose isEnabled tells whether the state is
\* 'active'; a summary with an empty path gets the empty name, which the
\* joined mapping never holds; a response of such summaries alone leaves every
\* row without a trailing container, and no call of addIndicators ends in an
\* error.
C17_ListFetcher ==
    [][/\ Len(output.workflows) = Len(input.workflows)
       /\ \A i \in 1..Len(input.workflows) :
             /\ IsFinalSegment(input.workflows[i].path, output.workflows[i].name)
             /\ output.workflows[i].isEnabled = (input.workflows[i].state = "active")
             /\ input.workflows[i].path = << >> => output.workflows[i].name = << >>
       /\ << >> \notin DOMAIN output.details
       /\ << >> \notin DOMAIN cache[CacheKey(PageRepo)].value
       /\ \A row \in Rows :
             /\ (CallStep(row) /\ rows[row].stops = 0) => ret'.kind = "hit"
             /\ (\A i \in 1..Len(input.workflows) : input.workflows[i].path = << >>) =>
                   rows'[row].trailers = 0]_vars

\* A summary with an empty path ahead of the summary of the row's workflow:
\* both are in the list, the mapping holds the second alone and the row got
\* its indicators.
C17_Witness ==
    /\ Len(input.workflows) = 2
    /\ input.workflows[1].path = << >>
    /\ output.workflows[1].name = << >>
    /\ output.workflows[2].name = MainFile(PageRepo)
    /\ DOMAIN output.details = {MainFile(PageRepo)}
    /\ \E row \in Rows : rows[row].calls = 1 /\ rows[row].trailers = 1

----------------------------------------------------------------------------
(* Properties of the dispatch scan *)

\* C18: manuallyDispatchable tells whether the characters workflow_dispatch
\* with a colon right after them stand somewhere in the text, whatever
\* stands before them and after the colon.
C18_Substring ==
    output.done =>
        (output.details.manuallyDispatchable <=>
            \E n \in 0..(Len(input.text) - 2) :
                LET before == SubSeq(input.text, 1, n)
                    after == SubSeq(input.text, n + 3, Len(input.text))
                IN \E word \in {"workflow_dispatch", "my_workflow_dispatch"} :
                       input.text = before \o << word, ":" >> \o after)

\* The trigger in a comment counts.
C18_Witness ==
    /\ output.done
    /\ input.text = << "#", " ", "workflow_dispatch", ":", "\n" >>
    /\ output.details.manuallyDispatchable

----------------------------------------------------------------------------
(* Properties of the early return of addIndicators *)

----------------------------------------------------------------------------
(* Properties of repeated names *)

\* C20: when several summaries of the list bear one name and the name has a
\* definition text, the mapping (a function of the names) holds one record
\* for the name, and it carries the isEnabled of the last of them in list
\* order, whatever the earlier ones say.
C20_LastWins ==
    output.done =>
        \A i, j \in 1..Len(input.workflows) :
            LET name == output.workflows[j].name IN
            (/\ i < j
             /\ output.workflows[i].name = name
             /\ \A l \in (j + 1)..Len(input.workflows) : output.workflows[l].name # name
             /\ Get(output.files, name) # Undefined) =>
                /\ name \in DOMAIN output.details
                /\ output.details[name].isEnabled = (input.workflows[j].state = "active")
                /\ output.details[name].name = name

\* Two summaries of one defined name, the first active and the second not:
\* the record is not enabled.
C20_Witness ==
    /\ output.done
    /\ Len(input.workflows) = 2
    /\ input.workflows[1].path = input.workflows[2].path
    /\ input.workflows[1].state = "active"
    /\ input.workflows[2].state # "active"
    /\ output.workflows[2].name \in DOMAIN output.details
    /\ ~output.details[output.workflows[2].name].isEnabled

====
